---- MODULE Spec2Model ----
(***************************************************************************)
(* Model of the wave-mode arrival detection core (modearrivals.py, and its *)
(* line-by-line twin waveModeArrivals.py):                                 *)
(*   find_peaks_troughs, find_signal_threshold, get_flexure_arrival and    *)
(*   get_extension_arrival.                                                *)
(*                                                                         *)
(* Conventions.                                                            *)
(*  - numpy arrays are sequences; numpy indices are 0-based, so the numpy  *)
(*    element a[i] is the TLA+ element a[i+1].  Locations and every index  *)
(*    the code computes are kept 0-based, as in the source.                *)
(*  - a floating-point value is an exact fraction <<n, d>> with d >= 0:    *)
(*    d > 0 is the finite value n/d, <<1, 0>> is +inf and <<0, 0>> is nan  *)
(*    (what numpy yields for x/0 and 0/0, with a warning and no error).    *)
(*  - an exception that leaves a function is an outcome record whose kind  *)
(*    is the Python exception type.                                        *)
(***************************************************************************)
EXTENDS Integers, Sequences, FiniteSets, TLC

VARIABLES sgnl, pc, peaks, normParam, flexIDX, extIDX, vctr, loop

vars == <<sgnl, pc, peaks, normParam, flexIDX, extIDX, vctr, loop>>

(***************************************************************************)
(* Bounds of the model.                                                    *)
(***************************************************************************)
MaxLen == 5
MaxVal == 3
ExtLen == 14
MaxSpikes == 2
MaxSeriesLen == 106

(***************************************************************************)
(* Sequence helpers (numpy primitives).                                    *)
(***************************************************************************)
Abs(x) == IF x < 0 THEN -x ELSE x

Min2(a, b) == IF b < a THEN b ELSE a

RECURSIVE SumSeq(_)
SumSeq(s) == IF Len(s) = 0 THEN 0 ELSE Head(s) + SumSeq(Tail(s))

\* s[a:b] of numpy for 0 <= a: the elements with 0-based index a..b-1,
\* clipped to the sequence.
Slice(s, a, b) ==
    LET hi == IF b > Len(s) THEN Len(s) ELSE b
    IN  IF hi <= a THEN << >> ELSE SubSeq(s, a + 1, hi)

\* The set of 0-based indices as an increasing sequence (np.where's row).
RECURSIVE SortedSeq(_)
SortedSeq(S) ==
    IF S = {} THEN << >>
    ELSE LET m == CHOOSE x \in S : \A y \in S : x <= y
         IN  <<m>> \o SortedSeq(S \ {m})

(***************************************************************************)
(* find_peaks_troughs                                                      *)
(***************************************************************************)
\* np.diff(vctr)
Diff(v) == [i \in 1..(Len(v) - 1) |-> v[i + 1] - v[i]]

\* mlt = dff*dff1 with the first and the last element deleted; element k
\* (0-based) belongs to the sample with index k+1.
MltBad(v) ==
    LET dff0 == Diff(v)
        dff1 == <<0>> \o dff0
        dff  == dff0 \o <<0>>
        mlt  == [i \in 1..Len(v) |-> dff[i] * dff1[i]]
    IN  SubSeq(mlt, 1, Len(v) - 2)

Mlt(v) ==
    LET dff0 == Diff(v)
        dff1 == <<0>> \o dff0
        dff  == dff0 \o <<0>>
        mlt  == [i \in 1..Len(v) |-> dff[i] * dff1[i]]
    IN  SubSeq(mlt, 2, Len(v) - 1)

\* idx = np.where(mlt <= 0): 0-based indices into mlt.
PeakIdxBad(v) ==
    LET mlt == Mlt(v)
    IN  SortedSeq({k \in 0..(Len(mlt) - 1) : mlt[k + 1] < 0})

PeakIdx(v) ==
    LET mlt == Mlt(v)
    IN  SortedSeq({k \in 0..(Len(mlt) - 1) : mlt[k + 1] <= 0})

\* locs = idx + 1
PeakLocs(v) ==
    LET idx == PeakIdx(v)
    IN  [j \in 1..Len(idx) |-> idx[j] + 1]

\* locs1: ones, the locations in the middle, len(vctr) at the end.
Locs1(v) == <<1>> \o PeakLocs(v) \o <<Len(v)>>

\* pks1: vctr[0], the extremum values, vctr[-1].
Pks1(v) ==
    LET locs == PeakLocs(v)
    IN  <<v[1]>> \o [j \in 1..Len(locs) |-> v[locs[j] + 1]] \o <<v[Len(v)]>>

\* wds[jj] = locs1[jj+1] - locs1[jj-1], jj = 1..M (0-based in locs1).
WidthAtBad(locs1, jj) == locs1[jj + 2] - (IF jj = 1 THEN 0 ELSE locs1[jj])

WidthAt(locs1, jj) == locs1[jj + 2] - locs1[jj]

\* prms[jj] = min(|pks1[jj]-pks1[jj-1]|, |pks1[jj+1]-pks1[jj]|)
PromAtBad(pks1, jj) ==
    LET lfp == Abs(pks1[jj + 1] - pks1[jj])
        rtp == Abs(pks1[jj + 2] - pks1[jj + 1])
    IN  IF lfp < rtp THEN rtp ELSE lfp

PromAt(pks1, jj) ==
    LET lfp == Abs(pks1[jj + 1] - pks1[jj])
        rtp == Abs(pks1[jj + 2] - pks1[jj + 1])
    IN  Min2(lfp, rtp)

find_peaks_troughs(v) ==
    LET locs1 == Locs1(v)
        pks1  == Pks1(v)
        M     == Len(locs1) - 2
    IN  [pks  |-> [j \in 1..M |-> pks1[j + 1]],
         locs |-> [j \in 1..M |-> locs1[j + 1]],
         wds  |-> [j \in 1..M |-> WidthAt(locs1, j)],
         prms |-> [j \in 1..M |-> PromAt(pks1, j)]]

(***************************************************************************)
(* Floating-point values as exact fractions <<n, d>>, d >= 0.              *)
(* The comparisons are IEEE comparisons: every comparison with nan is      *)
(* false.  Sums and quotients are exact (rounding is not modelled).        *)
(***************************************************************************)
Nan == <<0, 0>>

Inf == <<1, 0>>

IsNan(x) == x[2] = 0 /\ x[1] = 0

IsInf(x) == x[2] = 0 /\ x[1] # 0

RECURSIVE GCD(_, _)
GCD(a, b) == IF b = 0 THEN a ELSE GCD(b, a % b)

\* a/b of numpy float64 for integers a >= 0, b >= 0: x/0 is inf, 0/0 is nan.
FDiv(a, b) == IF b = 0 THEN (IF a = 0 THEN Nan ELSE Inf) ELSE <<a, b>>

\* x > y
FGT(x, y) ==
    IF IsNan(x) \/ IsNan(y) THEN FALSE
    ELSE IF IsInf(x) THEN ~IsInf(y)
    ELSE IF IsInf(y) THEN FALSE
    ELSE LET g == GCD(x[2], y[2])
         IN  x[1] * (y[2] \div g) > y[1] * (x[2] \div g)

\* x < y
FLT(x, y) == FGT(y, x)

\* x == y
FEQ(x, y) ==
    IF IsNan(x) \/ IsNan(y) THEN FALSE
    ELSE IF IsInf(x) \/ IsInf(y) THEN IsInf(x) /\ IsInf(y)
    ELSE LET g == GCD(x[2], y[2])
         IN  x[1] * (y[2] \div g) = y[1] * (x[2] \div g)

\* x <= y
FLE(x, y) == FLT(x, y) \/ FEQ(x, y)

\* Python's truth value of a float: everything but 0.0 (nan included).
FTruthy(x) == ~(x[2] > 0 /\ x[1] = 0)

\* Python's builtin max(a, b): b only when b > a.
PyMax2(a, b) == IF FGT(b, a) THEN b ELSE a

\* Python's builtin max over a non-empty array.
RECURSIVE PyMaxSeq(_)
PyMaxSeq(xs) ==
    IF Len(xs) = 1 THEN xs[1]
    ELSE PyMax2(PyMaxSeq(SubSeq(xs, 1, Len(xs) - 1)), xs[Len(xs)])

\* np.mean of a slice whose elements share one denominator (the elements
\* of param are all P[j]/ref; ref = 0 makes every element inf or nan).
\* The mean of an empty slice is nan.
FMean(xs) ==
    IF Len(xs) = 0 THEN Nan
    ELSE IF \E i \in 1..Len(xs) : IsNan(xs[i]) THEN Nan
    ELSE IF \E i \in 1..Len(xs) : IsInf(xs[i]) THEN Inf
    ELSE <<SumSeq([i \in 1..Len(xs) |-> xs[i][1]]), xs[1][2] * Len(xs)>>

\* k * x for an integer k > 0
FScale(k, x) == IF x[2] = 0 THEN x ELSE <<k * x[1], x[2]>>

(***************************************************************************)
(* Outcomes of a call: a returned index or the exception that left it.     *)
(***************************************************************************)
Return(v) == [kind |-> "return", value |-> v, at |-> 0]

Raise(k, line) == [kind |-> k, value |-> 0, at |-> line]

NoOutcome == [kind |-> "none", value |-> 0, at |-> 0]

Returned(o) == o.kind = "return"

Raised(o) == o.kind \notin {"return", "none"}

(***************************************************************************)
(* Shared normalization (get_extension_arrival 222-231,                    *)
(* get_flexure_arrival 355-364).                                           *)
(***************************************************************************)
\* np.abs(pks*prominence)
RawParam(pk) == [j \in 1..Len(pk.pks) |-> Abs(pk.pks[j] * pk.prms[j])]

\* np.sort(param)[::-1]
RECURSIVE SortDesc(_)
SortDesc(xs) ==
    IF Len(xs) = 0 THEN << >>
    ELSE LET i == CHOOSE k \in 1..Len(xs) : \A l \in 1..Len(xs) : xs[k] >= xs[l]
         IN  <<xs[i]>> \o SortDesc(SubSeq(xs, 1, i - 1) \o SubSeq(xs, i + 1, Len(xs)))

\* The divisor: nrm[1] if nrm[0]/nrm[1] > 5, else nrm[0] (needs two entries).
NormRefBad(nrm) == nrm[1]

NormRef(nrm) == IF FGT(FDiv(nrm[1], nrm[2]), <<5, 1>>) THEN nrm[2] ELSE nrm[1]

\* param/nrm[..]
Normalize(raw) ==
    LET ref == NormRef(SortDesc(raw))
    IN  [j \in 1..Len(raw) |-> FDiv(raw[j], ref)]

\* param after lines 222-231 / 355-364; the normalization is not reached
\* with fewer than two extrema (nrm[1] raises first).
NormalizedParam(s) ==
    LET raw == RawParam(find_peaks_troughs(s))
    IN  IF Len(raw) < 2 THEN << >> ELSE Normalize(raw)

(***************************************************************************)
(* find_signal_threshold                                                   *)
(***************************************************************************)
noiseMin == <<1, 1000000>>

upcntLim == 2

incr == 20

\* The locals before the first iteration (137-149).  thresh = [] is
\* threshSet = FALSE; tmpthresh is not bound until its first assignment.
ThreshInit ==
    [strt |-> 0, endd |-> 25, thresh |-> <<0, 1>>, threshSet |-> FALSE,
     tmpthresh |-> <<0, 1>>, tmpSet |-> FALSE, mean |-> <<0, 1>>,
     flag1 |-> TRUE, flag2 |-> FALSE, upcnt |-> 0, iter |-> 0,
     err |-> FALSE]

\* The value restored when the streak counter exceeds 1 (173-175).
RestoredBad(tmp, m) == m

Restored(tmp, m) == tmp

\* The loop's exit test (184).
ThreshStopBad(v, endd, thresh, upcnt) ==
    endd > Len(v)

ThreshStop(v, endd, thresh, upcnt) ==
    endd > Len(v) \/ (FGT(thresh, noiseMin) /\ upcnt > upcntLim)

\* One iteration of the while loop (151-186) on the series v, m being the
\* mean of its window (158).
ThreshUpdate(v, st, m) ==
    LET save   == st.threshSet /\ FTruthy(st.thresh)
        tmp    == IF save THEN st.thresh ELSE st.tmpthresh
        tmpSet == save \/ st.tmpSet
        strt   == st.strt + incr
        endd   == st.endd + incr
        up     == FGT(m, noiseMin)
        reset  == ~up /\ FLE(m, noiseMin) /\ st.flag2
        upcnt  == IF up THEN st.upcnt + 1 ELSE IF reset THEN 0 ELSE st.upcnt
        flag2  == IF up THEN TRUE ELSE IF reset THEN FALSE ELSE st.flag2
        thresh == IF up /\ upcnt > 1 THEN Restored(tmp, m) ELSE m
        err    == up /\ upcnt > 1 /\ ~tmpSet
    IN  [strt |-> strt, endd |-> endd, thresh |-> thresh, threshSet |-> TRUE,
         tmpthresh |-> tmp, tmpSet |-> tmpSet, mean |-> m,
         flag1 |-> ~err /\ ~ThreshStop(v, endd, thresh, upcnt),
         flag2 |-> flag2, upcnt |-> upcnt, iter |-> st.iter + 1,
         err |-> err]

\* The window mean is computed once per iteration.
ThreshStep(v, st) ==
    CHOOSE nxt \in {ThreshUpdate(v, st, m) :
                       m \in {FMean(Slice(v, st.strt, st.endd))}} : TRUE

RECURSIVE ThreshRun(_, _)
ThreshRun(v, st) == IF st.flag1 THEN ThreshRun(v, ThreshStep(v, st)) ELSE st

\* The final locals of find_signal_threshold(v); .thresh is the value
\* returned, .err an UnboundLocalError at line 175.
find_signal_threshold(v) == ThreshRun(v, ThreshInit)

(***************************************************************************)
(* get_flexure_arrival                                                     *)
(***************************************************************************)
\* np.where(param > thresh): 0-based indices.
AboveIdx(param, thresh) ==
    SortedSeq({k \in 0..(Len(param) - 1) : FGT(param[k + 1], thresh)})

\* 377-380: the literal 0 for index 0, the location otherwise.
FlexPickBad(locs, idx) == locs[idx + 1]

FlexPickIdx(locs, idx) == idx

FlexPick(locs, idx) == IF idx = 0 THEN 0 ELSE locs[idx + 1]

get_flexure_arrival(s) ==
    LET pk    == find_peaks_troughs(s)
        raw   == RawParam(pk)
        param == Normalize(raw)
        fst   == find_signal_threshold(param)
        idx   == AboveIdx(param, fst.thresh)
    IN  IF Len(raw) < 2 THEN Raise("IndexError", 361)
        ELSE IF fst.err THEN Raise("UnboundLocalError", 175)
        ELSE IF Len(idx) = 0 THEN Raise("IndexError", 373)
        ELSE Return(FlexPick(pk.locs, idx[1]))

(***************************************************************************)
(* get_extension_arrival                                                   *)
(***************************************************************************)
noisemult == 10

noisemin == <<1, 1000000>>

\* np.where(param == 1): 0-based indices (236).
DominantIdx(param) ==
    SortedSeq({k \in 0..(Len(param) - 1) : FEQ(param[k + 1], <<1, 1>>)})

\* nnlim = max(floor(locs[tmpidx]/4), floor(len(sgnl)/40)) (239)
Nnlim(locs, tmpidx, N) ==
    LET a == locs[tmpidx + 1] \div 4
        b == N \div 40
    IN  IF b > a THEN b ELSE a

\* np.where(locs <= nnlim): 0-based indices (241).
NoiseIdx(locs, nnlim) ==
    SortedSeq({k \in 0..(Len(locs) - 1) : locs[k + 1] <= nnlim})

\* refnoisemean (244)
RefNoise(param, nnlocs) == PyMax2(FMean(Slice(param, 1, nnlocs)), noisemin)

\* refmaxthresh (245); the slice is not empty.
RefMax(param, nnlocs) ==
    PyMax2(FScale(noisemult, RefNoise(param, nnlocs)),
           PyMaxSeq(Slice(param, 1, nnlocs)))

\* The locals before the segment loop (250-257).
SegInit(nnlocs) ==
    [tstmean |-> << >>, cnt |-> 0, strt |-> 0, endd |-> nnlocs \div 2,
     flag |-> TRUE]

\* The start of the next segment (262).
SegNextStartBad(endd) == endd

SegNextStart(endd) == endd + 1

\* One iteration of the segment loop (259-269); an entry of tstmean is
\* <<start, mean>>.
SegStep(param, nnlocs, refmax, st) ==
    LET m    == FMean(Slice(param, st.strt, st.endd))
        strt == SegNextStart(st.endd)
        endd == strt + (nnlocs \div 2)
    IN  [tstmean |-> Append(st.tstmean, <<st.strt, m>>),
         cnt |-> st.cnt + 1, strt |-> strt, endd |-> endd,
         flag |-> ~(endd > Len(param) \/ FGT(m, refmax))]

RECURSIVE SegRun(_, _, _, _)
SegRun(param, nnlocs, refmax, st) ==
    IF st.flag THEN SegRun(param, nnlocs, refmax, SegStep(param, nnlocs, refmax, st))
    ELSE st

\* np.where(tstmean[:, 1] < refnoisemean): 0-based segment numbers (278, 300).
QuietSegs(tstmean, refnoise) ==
    SortedSeq({k \in 0..(Len(tstmean) - 1) : FLT(tstmean[k + 1][2], refnoise)})

\* np.delete(a, np.arange(0, k)): drop the first k elements.
DropFirst(a, k) == IF k <= 0 THEN a ELSE SubSeq(a, k + 1, Len(a))

\* np.delete(a, np.arange(k, len(a))): keep the first k elements.
KeepFirst(a, k) == SubSeq(a, 1, k)

\* np.where(param <= refnoisemean): 0-based indices (316).
BelowIdxBad(param, refnoise) ==
    SortedSeq({k \in 0..(Len(param) - 1) : FLT(param[k + 1], refnoise)})

BelowIdx(param, refnoise) ==
    SortedSeq({k \in 0..(Len(param) - 1) : FLE(param[k + 1], refnoise)})

\* The locals of a call of get_extension_arrival(s) after line 222.  stage
\* is "run" while the call is running and names how it ended afterwards:
\* "early" (an exception before the branches), "A" or "B".
ExtPeaks(s) ==
    LET pk == find_peaks_troughs(s)
    IN  [stage |-> "run", out |-> NoOutcome, N |-> Len(s), raw |-> RawParam(pk),
         param |-> << >>, locs |-> pk.locs, tmpidx |-> -1, nnlocs |-> -1,
         refnoise |-> Nan, refmax |-> Nan, tstmean |-> << >>, seg |-> -1,
         rest |-> << >>, restParam |-> << >>, next |-> -1]

\* An exception of kind k at the given line ends the call.
ExtFail(c, st, k, line) == [c EXCEPT !.stage = st, !.out = Raise(k, line)]

\* 223-231: nrm[1] needs two extrema.
ExtNormalize(c) ==
    IF Len(c.raw) < 2 THEN ExtFail(c, "early", "IndexError", 228)
    ELSE [c EXCEPT !.param = Normalize(c.raw)]

\* 236-237: tmpidx, the first entry equal to 1.
ExtDominant(c) ==
    LET dom == DominantIdx(c.param)
    IN  IF c.stage # "run" THEN c
        ELSE IF Len(dom) = 0 THEN ExtFail(c, "early", "IndexError", 237)
        ELSE [c EXCEPT !.tmpidx = dom[1]]

\* 239-242: nnlocs, the last extremum at or before nnlim.
ExtNoiseRegion(c) ==
    LET nn == NoiseIdx(c.locs, Nnlim(c.locs, c.tmpidx, c.N))
    IN  IF c.stage # "run" THEN c
        ELSE IF Len(nn) = 0 THEN ExtFail(c, "early", "IndexError", 242)
        ELSE [c EXCEPT !.nnlocs = nn[Len(nn)]]

\* 244-245: the reference levels; max() of the empty slice param[1:nnlocs]
\* is a ValueError.
ExtReferences(c) ==
    IF c.stage # "run" THEN c
    ELSE IF c.nnlocs <= 1 THEN ExtFail(c, "early", "ValueError", 245)
    ELSE [c EXCEPT !.refnoise = RefNoise(c.param, c.nnlocs),
                   !.refmax = RefMax(c.param, c.nnlocs)]

\* 250-271: the recorded segment means.
ExtSegments(c) ==
    IF c.stage # "run" THEN c
    ELSE [c EXCEPT !.tstmean =
              SegRun(c.param, c.nnlocs, c.refmax, SegInit(c.nnlocs)).tstmean]

\* 276: no recorded segment mean exceeded refmaxthresh.
IsBranchA(c) == FLE(c.tstmean[Len(c.tstmean)][2], c.refmax)

\* The segment used for discarding in Branch A (278-282): the last quiet
\* segment, segment 1 in place of segment 0.
SegPickBad(last) == last

SegPick(last) == IF last = 0 THEN 1 ELSE last

\* Branch A, 278-285: discard the extrema up to the start of the segment.
BranchACut(c) ==
    LET quiet == QuietSegs(c.tstmean, c.refnoise)
        idx   == SegPick(quiet[Len(quiet)])
        cut   == c.tstmean[idx + 1][1] + 1
    IN  IF Len(quiet) = 0 THEN ExtFail(c, "A", "IndexError", 279)
        ELSE IF idx >= Len(c.tstmean) THEN
            [ExtFail(c, "A", "IndexError", 284) EXCEPT !.seg = idx]
        ELSE [c EXCEPT !.seg = idx, !.rest = DropFirst(c.locs, cut),
                       !.restParam = DropFirst(c.param, cut)]

\* Branch A, 287-293: the first remaining entry above refnoisemean.
BranchAPick(c) ==
    LET above == AboveIdx(c.restParam, c.refnoise)
    IN  IF c.stage # "run" THEN c
        ELSE IF Len(above) = 0 THEN ExtFail(c, "A", "IndexError", 288)
        ELSE [c EXCEPT !.stage = "A", !.next = above[1],
                       !.out = IF above[1] = 0 THEN Return(0)
                               ELSE Return(c.rest[above[1] + 1])]

BranchA(c) == BranchAPick(BranchACut(c))

\* Branch B, 300-305: discard the extrema before the start of the last
\* quiet segment.
BranchBCut(c) ==
    LET quiet == QuietSegs(c.tstmean, c.refnoise)
        last  == quiet[Len(quiet)]
        idx   == c.tstmean[last + 1][1] - 1
    IN  IF Len(quiet) = 0 THEN ExtFail(c, "B", "IndexError", 301)
        ELSE [c EXCEPT !.seg = last, !.rest = DropFirst(c.locs, idx + 1),
                       !.restParam = DropFirst(c.param, idx + 1)]

\* Branch B, 307-311: discard the extrema after the first entry above
\* refmaxthresh.
BranchBWindow(c) ==
    LET above == AboveIdx(c.restParam, c.refmax)
    IN  IF c.stage # "run" THEN c
        ELSE IF Len(above) = 0 THEN ExtFail(c, "B", "IndexError", 308)
        ELSE [c EXCEPT !.rest = KeepFirst(c.rest, above[1] + 1),
                       !.restParam = KeepFirst(c.restParam, above[1] + 1)]

\* 321-325: locs[-2], or locs[-1] when locs has one entry.
Fallback(locs) ==
    IF Len(locs) >= 2 THEN locs[Len(locs) - 1] ELSE locs[Len(locs)]

\* Branch B, 316-325: the extremum after the last entry at or below
\* refnoisemean.
BranchBPick(c) ==
    LET below == BelowIdx(c.restParam, c.refnoise)
        nxt   == below[Len(below)] + 1
    IN  IF c.stage # "run" THEN c
        ELSE IF Len(below) = 0 THEN ExtFail(c, "B", "IndexError", 317)
        ELSE IF nxt >= Len(c.rest) THEN
            [ExtFail(c, "B", "IndexError", 319) EXCEPT !.next = nxt]
        ELSE [c EXCEPT !.stage = "B", !.next = nxt,
                       !.out = IF c.rest[nxt + 1] = 0 THEN Return(Fallback(c.rest))
                               ELSE Return(c.rest[nxt + 1])]

BranchB(c) == BranchBPick(BranchBWindow(BranchBCut(c)))

\* 276-325
ExtBranch(c) ==
    IF c.stage # "run" THEN c
    ELSE IF IsBranchA(c) THEN BranchA(c)
    ELSE BranchB(c)

\* Every local of one call of get_extension_arrival(s); .out is its outcome.
ExtTrace(s) ==
    ExtBranch(ExtSegments(ExtReferences(ExtNoiseRegion(ExtDominant(
        ExtNormalize(ExtPeaks(s)))))))

\* The value returned, or the exception raised (327).
get_extension_arrival_Sentinel(s) ==
    LET o == ExtTrace(s).out
    IN  IF o.at = 228 THEN Return(0) ELSE o

get_extension_arrival(s) == ExtTrace(s).out

(***************************************************************************)
(* Inputs.                                                                 *)
(***************************************************************************)
Vals == -1..MaxVal

E2ESignal == <<0, 1, 0, -1, 0, 1, 0, -1, 0>>

\* Every signal of 3..MaxLen samples over Vals, and the literal fixture.
Signals == (UNION {[1..n -> Vals] : n \in 3..MaxLen}) \cup {E2ESignal}

\* Long signals: a flat line or a unit zigzag of ExtLen samples in which
\* at most MaxSpikes samples are replaced by a value of Vals.
BaseSignal(zig, n) ==
    [i \in 1..n |-> IF ~zig THEN 0 ELSE IF i % 2 = 0 THEN 1 ELSE -1]

SpikeSets == {P \in SUBSET (1..ExtLen) : Cardinality(P) <= MaxSpikes}

Spiked(base, P, f) == [i \in 1..Len(base) |-> IF i \in P THEN f[i] ELSE base[i]]

\* Long signals with three levels of amplitude: the unit zigzag with a
\* crest of MaxVal on its last but one sample, in which at most two
\* samples are replaced by a value of Vals or by a tall value.
Tall == 4 * MaxVal

CrestSignal ==
    [i \in 1..ExtLen |-> IF i = ExtLen - 1 THEN MaxVal
                         ELSE BaseSignal(TRUE, ExtLen)[i]]

CrestSignals ==
    UNION {{Spiked(CrestSignal, P, f) : f \in [P -> Vals \cup {Tall}]} :
              P \in {Q \in SUBSET (1..ExtLen) : Cardinality(Q) <= 2}}

\* Series for find_signal_threshold: samples are multiples of 1e-6.  The
\* first 60 samples are 0 or 1e-6 (one level up to sample a, another after
\* it), every later sample is 0.5.
Micro(n) == <<n, 1000000>>

Half == Micro(500000)

JumpSeries(a, lo1, lo2, L) ==
    [i \in 1..L |-> IF i <= a THEN Micro(lo1) ELSE IF i <= 60 THEN Micro(lo2) ELSE Half]

NoPeaks == [pks |-> << >>, locs |-> << >>, wds |-> << >>, prms |-> << >>]

Idle == [ThreshInit EXCEPT !.flag1 = FALSE]

(***************************************************************************)
(* The detectors on short signals.                                         *)
(***************************************************************************)
Init ==
    /\ sgnl \in Signals
    /\ pc = "ready"
    /\ peaks = NoPeaks
    /\ normParam = << >>
    /\ flexIDX = NoOutcome
    /\ extIDX = NoOutcome
    /\ vctr = << >>
    /\ loop = Idle

CallFindPeaksTroughs ==
    /\ pc = "ready"
    /\ peaks' = find_peaks_troughs(sgnl)
    /\ pc' = "peaks"
    /\ UNCHANGED <<sgnl, normParam, flexIDX, extIDX, vctr, loop>>

CallGetFlexureArrival ==
    /\ pc = "ready"
    /\ peaks' = find_peaks_troughs(sgnl)
    /\ normParam' = NormalizedParam(sgnl)
    /\ flexIDX' = get_flexure_arrival(sgnl)
    /\ pc' = "flex"
    /\ UNCHANGED <<sgnl, extIDX, vctr, loop>>

CallGetExtensionArrival ==
    /\ pc = "ready"
    /\ peaks' = find_peaks_troughs(sgnl)
    /\ normParam' = NormalizedParam(sgnl)
    /\ extIDX' = get_extension_arrival(sgnl)
    /\ pc' = "ext"
    /\ UNCHANGED <<sgnl, flexIDX, vctr, loop>>

Next ==
    \/ CallFindPeaksTroughs
    \/ CallGetFlexureArrival
    \/ CallGetExtensionArrival

Spec == Init /\ [][Next]_vars

(***************************************************************************)
(* The detectors on long signals.                                          *)
(***************************************************************************)
InitExt ==
    /\ \E zig \in BOOLEAN, P \in SpikeSets :
         \E f \in [P -> Vals] : sgnl = Spiked(BaseSignal(zig, ExtLen), P, f)
    /\ pc = "ready"
    /\ peaks = NoPeaks
    /\ normParam = << >>
    /\ flexIDX = NoOutcome
    /\ extIDX = NoOutcome
    /\ vctr = << >>
    /\ loop = Idle

SpecExt == InitExt /\ [][Next]_vars

(***************************************************************************)
(* The detectors on long signals with three levels of amplitude.           *)
(***************************************************************************)
InitCrest ==
    /\ sgnl \in CrestSignals
    /\ pc = "ready"
    /\ peaks = NoPeaks
    /\ normParam = << >>
    /\ flexIDX = NoOutcome
    /\ extIDX = NoOutcome
    /\ vctr = << >>
    /\ loop = Idle

SpecCrest == InitCrest /\ [][Next]_vars

(***************************************************************************)
(* find_signal_threshold, one loop iteration per step.                     *)
(***************************************************************************)
InitThresh ==
    /\ \E a \in 0..60, lo1 \in 0..1, lo2 \in 0..1, L \in 61..MaxSeriesLen :
         vctr = JumpSeries(a, lo1, lo2, L)
    /\ pc = "loop"
    /\ loop = ThreshInit
    /\ sgnl = << >>
    /\ peaks = NoPeaks
    /\ normParam = << >>
    /\ flexIDX = NoOutcome
    /\ extIDX = NoOutcome

ThreshIterate ==
    /\ pc = "loop"
    /\ loop.flag1
    /\ loop' = ThreshStep(vctr, loop)
    /\ UNCHANGED <<sgnl, pc, peaks, normParam, flexIDX, extIDX, vctr>>

ThreshReturn ==
    /\ pc = "loop"
    /\ ~loop.flag1
    /\ pc' = IF loop.err THEN "raised" ELSE "returned"
    /\ UNCHANGED <<sgnl, peaks, normParam, flexIDX, extIDX, vctr, loop>>

NextThresh == ThreshIterate \/ ThreshReturn

SpecThresh == InitThresh /\ [][NextThresh]_vars

(***************************************************************************)
(* The two while loops, one iteration per step: the window loop of         *)
(* find_signal_threshold on block series, and the segment loop of          *)
(* get_extension_arrival on the crest signals that reach it.  A running    *)
(* loop takes its next iteration (weak fairness): the interpreter does not *)
(* stop in the middle of a call.                                           *)
(***************************************************************************)
\* Series made of blocks of 20 samples, every block at one level (a
\* multiple of 1e-6): silence, or an amplitude of 0.5.
Levels == {0, 500000}

BlockSeries(f, L) == [i \in 1..L |-> Micro(f[((i - 1) \div incr) + 1])]

\* The locals of get_extension_arrival(s) when the segment loop begins.
ExtBefore(s) ==
    ExtReferences(ExtNoiseRegion(ExtDominant(ExtNormalize(ExtPeaks(s)))))

\* The locals the segment loop reads and those it updates.
SegLocals(c) ==
    [param |-> c.param, nnlocs |-> c.nnlocs, refmax |-> c.refmax,
     seg |-> SegInit(c.nnlocs)]

InitLoops ==
    /\ \/ /\ \E f \in [1..6 -> Levels], L \in 0..MaxSeriesLen :
               vctr = BlockSeries(f, L)
          /\ pc = "loop"
          /\ loop = ThreshInit
          /\ sgnl = << >>
       \/ /\ sgnl \in CrestSignals
          /\ ExtBefore(sgnl).stage = "run"
          /\ pc = "segloop"
          /\ loop = SegLocals(ExtBefore(sgnl))
          /\ vctr = << >>
    /\ peaks = NoPeaks
    /\ normParam = << >>
    /\ flexIDX = NoOutcome
    /\ extIDX = NoOutcome

SegIterate ==
    /\ pc = "segloop"
    /\ loop.seg.flag
    /\ loop' = [loop EXCEPT
                  !.seg = SegStep(loop.param, loop.nnlocs, loop.refmax, loop.seg)]
    /\ UNCHANGED <<sgnl, pc, peaks, normParam, flexIDX, extIDX, vctr>>

SegReturn ==
    /\ pc = "segloop"
    /\ ~loop.seg.flag
    /\ pc' = "segdone"
    /\ UNCHANGED <<sgnl, peaks, normParam, flexIDX, extIDX, vctr, loop>>

NextLoops == ThreshIterate \/ ThreshReturn \/ SegIterate \/ SegReturn

SpecLoops == InitLoops /\ [][NextLoops]_vars /\ WF_vars(NextLoops)

(***************************************************************************)
(* Properties of find_peaks_troughs.                                       *)
(***************************************************************************)
PeaksKnown == pc \in {"peaks", "flex", "ext"}

NumPeaks == Len(peaks.locs)

\* numpy element a[i]
At(a, i) == a[i + 1]

IsLoc(i) == \E j \in 1..NumPeaks : peaks.locs[j] = i

\* (signal[i]-signal[i-1]) * (signal[i+1]-signal[i]) <= 0
TurnsAt(i) == (At(sgnl, i) - At(sgnl, i - 1)) * (At(sgnl, i + 1) - At(sgnl, i)) <= 0

StrictlyMonotonic(v) ==
    \/ \A i \in 1..(Len(v) - 1) : v[i] < v[i + 1]
    \/ \A i \in 1..(Len(v) - 1) : v[i] > v[i + 1]

Constant(v) == \A i \in 1..Len(v) : v[i] = v[1]

AllEmpty(pk) ==
    /\ pk.pks = << >>
    /\ pk.locs = << >>
    /\ pk.wds = << >>
    /\ pk.prms = << >>

\* C1: for a signal of N >= 3 samples the four returned sequences have one
\* length M >= 0, the locations increase strictly, every location i has
\* 0 < i < N-1, and an interior index i is a location exactly when
\* (signal[i]-signal[i-1]) * (signal[i+1]-signal[i]) <= 0.
C1_PeakContract ==
    PeaksKnown =>
        /\ Len(peaks.pks) = NumPeaks
        /\ Len(peaks.wds) = NumPeaks
        /\ Len(peaks.prms) = NumPeaks
        /\ \A j \in 1..(NumPeaks - 1) : peaks.locs[j] < peaks.locs[j + 1]
        /\ \A j \in 1..NumPeaks :
             /\ 0 < peaks.locs[j]
             /\ peaks.locs[j] < Len(sgnl) - 1
             /\ peaks.pks[j] = At(sgnl, peaks.locs[j])
        /\ \A i \in 1..(Len(sgnl) - 2) : IsLoc(i) <=> TurnsAt(i)

\* A call that reported some interior indices, one of them for a zero
\* product, and left others out.
C1_Witness ==
    /\ pc = "peaks"
    /\ NumPeaks >= 2
    /\ NumPeaks < Len(sgnl) - 2
    /\ \E j \in 1..NumPeaks :
         At(sgnl, peaks.locs[j]) = At(sgnl, peaks.locs[j] - 1)

\* C2 as stated: a strictly monotonic signal and a constant signal both
\* give four empty sequences.
C2_EmptyForMonotonicOrConstant ==
    (PeaksKnown /\ (StrictlyMonotonic(sgnl) \/ Constant(sgnl))) => AllEmpty(peaks)

\* C2 amended: a strictly monotonic signal gives four empty sequences; a
\* constant signal of N samples gives M = N-2, every interior index
\* 1..N-2 being reported (each product is 0), with value the constant,
\* and prominence 0.
C2_EmptyForMonotonic ==
    PeaksKnown =>
        /\ StrictlyMonotonic(sgnl) => AllEmpty(peaks)
        /\ Constant(sgnl) =>
             /\ NumPeaks = Len(sgnl) - 2
             /\ \A j \in 1..NumPeaks :
                  /\ peaks.locs[j] = j
                  /\ peaks.pks[j] = sgnl[1]
                  /\ peaks.prms[j] = 0

C2_Witness ==
    /\ pc = "peaks"
    /\ StrictlyMonotonic(sgnl)
    /\ Len(sgnl) >= 4
    /\ AllEmpty(peaks)

\* The location of the left and of the right neighbour of extremum j
\* (1-based j) in the bracketed list: 1 before the first, N after the last.
LeftLoc(j) == IF j = 1 THEN 1 ELSE peaks.locs[j - 1]

RightLoc(j) == IF j = NumPeaks THEN Len(sgnl) ELSE peaks.locs[j + 1]

\* C3: the width of every extremum is the location of its right neighbour
\* minus the location of its left neighbour, the start boundary standing at
\* location 1 and the end boundary at N; the signal
\* [0,1,0,-1,0,1,0,-1,0] gives locations [1,3,5,7] and widths [2,4,4,4].
C3_Widths ==
    PeaksKnown =>
        /\ \A j \in 1..NumPeaks : peaks.wds[j] = RightLoc(j) - LeftLoc(j)
        /\ sgnl = E2ESignal =>
             /\ peaks.locs = <<1, 3, 5, 7>>
             /\ peaks.wds = <<2, 4, 4, 4>>

C3_Witness ==
    /\ pc = "peaks"
    /\ sgnl = E2ESignal
    /\ peaks.wds = <<2, 4, 4, 4>>
    /\ peaks.wds[1] = peaks.locs[2] - 1

\* The value of the left and of the right neighbour of extremum j: the
\* first sample before the first extremum, the last sample after the last.
LeftVal(j) == IF j = 1 THEN sgnl[1] ELSE peaks.pks[j - 1]

RightVal(j) == IF j = NumPeaks THEN sgnl[Len(sgnl)] ELSE peaks.pks[j + 1]

LeftDiff(j) == Abs(peaks.pks[j] - LeftVal(j))

RightDiff(j) == Abs(RightVal(j) - peaks.pks[j])

\* C4: the prominence of every extremum is the smaller of the absolute
\* differences to its left and to its right neighbour value (the larger one
\* only when the two are equal).
C4_ProminenceIsMin ==
    PeaksKnown =>
        \A j \in 1..NumPeaks :
            /\ peaks.prms[j] <= LeftDiff(j)
            /\ peaks.prms[j] <= RightDiff(j)
            /\ peaks.prms[j] \in {LeftDiff(j), RightDiff(j)}

\* An extremum whose two differences differ, in both orders, one of them
\* the first extremum (left neighbour = first sample).
C4_Witness ==
    /\ pc = "peaks"
    /\ NumPeaks >= 2
    /\ LeftDiff(1) < RightDiff(1)
    /\ peaks.prms[1] = LeftDiff(1)
    /\ \E j \in 2..NumPeaks : RightDiff(j) < LeftDiff(j) /\ peaks.prms[j] = RightDiff(j)

(***************************************************************************)
(* Properties of the shared normalization.                                 *)
(***************************************************************************)
Normalized == pc \in {"flex", "ext"} /\ NumPeaks >= 2

One == <<1, 1>>

\* max(param) == 1: some entry is 1 and no entry is above 1 (or nan).
MaxIsOne(prm) ==
    /\ \E j \in 1..Len(prm) : FEQ(prm[j], One)
    /\ \A j \in 1..Len(prm) : FLE(prm[j], One)

\* The largest and the second-largest entry of |pks*prominence|.
Largest == SortDesc(RawParam(peaks))[1]

Second == SortDesc(RawParam(peaks))[2]

\* C5 as stated: after the normalization max(param) == 1 for every input
\* with at least 2 extrema (here only for the inputs whose divisor is not 0,
\* so that no entry is inf or nan).
C5_MaxIsOne == (Normalized /\ Second > 0) => MaxIsOne(normParam)

\* C5 amended: with at least 2 extrema and a positive second-largest entry,
\* the entry chosen as divisor becomes exactly 1: max(param) == 1 when
\* largest/second-largest <= 5, and when the ratio exceeds 5 the
\* second-largest entry is 1 and max(param) is the ratio, above 5.  With a
\* second-largest entry of 0 the divisor is 0 and no entry is 1.
C5_ReferenceIsOne ==
    Normalized =>
        /\ (Second > 0 /\ Largest <= 5 * Second) => MaxIsOne(normParam)
        /\ (Second > 0 /\ Largest > 5 * Second) =>
             /\ \E j \in 1..NumPeaks : FEQ(normParam[j], One)
             /\ \E j \in 1..NumPeaks :
                  /\ FEQ(normParam[j], <<Largest, Second>>)
                  /\ FGT(normParam[j], <<5, 1>>)
                  /\ \A k \in 1..NumPeaks : FLE(normParam[k], normParam[j])
        /\ Second = 0 =>
             \A j \in 1..NumPeaks : IsNan(normParam[j]) \/ IsInf(normParam[j])

\* A call whose largest entry is more than 5 times the second largest.
C5_Witness ==
    /\ Normalized
    /\ Second > 0
    /\ Largest > 5 * Second
    /\ \E j \in 1..NumPeaks : FGT(normParam[j], <<5, 1>>)

(***************************************************************************)
(* Properties of get_flexure_arrival.                                      *)
(***************************************************************************)
\* thresh = find_signal_threshold(param)
FlexThresh == find_signal_threshold(normParam).thresh

\* The extremum numbers (0-based) whose param exceeds thresh.
FlexAbove == {k \in 0..(NumPeaks - 1) : FGT(normParam[k + 1], FlexThresh)}

FirstOf(S) == CHOOSE k \in S : \A l \in S : k <= l

\* C6 (flexure part): with at least 2 extrema, every param finite and none
\* above the estimated threshold, get_flexure_arrival returns 0.
C6_FlexSentinel ==
    (/\ pc = "flex"
     /\ NumPeaks >= 2
     /\ \A j \in 1..NumPeaks : normParam[j][2] > 0
     /\ FlexAbove = {})
    => flexIDX = Return(0)

\* C6 (Branch A part): in Branch A with no remaining param above ref_noise,
\* get_extension_arrival returns 0.
C6_ExtSentinel ==
    LET c == BranchACut(ExtSegments(ExtReferences(ExtNoiseRegion(ExtDominant(
                 ExtNormalize(ExtPeaks(sgnl)))))))
    IN  (/\ pc = "ext"
         /\ ExtTrace(sgnl).stage = "A"
         /\ c.stage = "run"
         /\ \A j \in 1..Len(c.restParam) : ~FGT(c.restParam[j], c.refnoise))
        => extIDX = Return(0)

\* C6: a detector that finds no extremum above its threshold returns the
\* sentinel 0 and raises nothing.
C6_SentinelNotError == C6_FlexSentinel /\ C6_ExtSentinel

\* C7: get_flexure_arrival returns exactly when some param exceeds
\* thresh, and then, k being the first such extremum, it returns 0 when
\* k = 0 and locations[k] when k > 0.
C7_FlexFirstAbove ==
    (pc = "flex" /\ NumPeaks >= 2) =>
        /\ Returned(flexIDX) <=> FlexAbove # {}
        /\ FlexAbove # {} =>
             flexIDX.value = IF FirstOf(FlexAbove) = 0 THEN 0
                             ELSE At(peaks.locs, FirstOf(FlexAbove))

\* A call whose first extremum above the threshold is not extremum 0, the
\* first extremum lying at a location other than 0.
C7_Witness ==
    /\ pc = "flex"
    /\ Returned(flexIDX)
    /\ FlexAbove # {}
    /\ FirstOf(FlexAbove) > 0
    /\ flexIDX.value = At(peaks.locs, FirstOf(FlexAbove))
    /\ flexIDX.value > 1

(***************************************************************************)
(* Properties of find_signal_threshold.                                    *)
(***************************************************************************)
\* The first 60 samples are at or below 1e-6 (and not negative), every
\* later sample is 0.5, and there is a later sample.
IsJumpSeries(v) ==
    /\ Len(v) > 60
    /\ \A i \in 1..60 : FLE(v[i], noiseMin) /\ v[i][1] >= 0
    /\ \A i \in 61..Len(v) : FEQ(v[i], Half)

ValidIndex(o) ==
    /\ o.value \in 0..(Len(sgnl) - 2)
    /\ o.value = 0 \/ IsLoc(o.value)

\* C9: a value returned by get_extension_arrival or get_flexure_arrival
\* is 0 or one of the extremum locations, hence an index in 0..N-2.
C9_ValidIndex ==
    /\ (pc = "flex" /\ Returned(flexIDX)) => ValidIndex(flexIDX)
    /\ (pc = "ext" /\ Returned(extIDX)) => ValidIndex(extIDX)

\* A call of get_extension_arrival that returned the location of an
\* extremum other than the first.
C9_Witness ==
    /\ pc = "ext"
    /\ Returned(extIDX)
    /\ extIDX.value > peaks.locs[1]
    /\ IsLoc(extIDX.value)

\* C10: with fewer than 2 extrema both detectors end with an exception
\* (the IndexError of nrm[0]/nrm[1]) and return no index.
C10_TooFewExtrema ==
    /\ (pc = "flex" /\ NumPeaks < 2) =>
          /\ Raised(flexIDX)
          /\ ~Returned(flexIDX)
          /\ flexIDX.kind = "IndexError"
          /\ flexIDX.at = 361
    /\ (pc = "ext" /\ NumPeaks < 2) =>
          /\ Raised(extIDX)
          /\ ~Returned(extIDX)
          /\ extIDX.kind = "IndexError"
          /\ extIDX.at = 228

\* A call of get_extension_arrival on a signal with exactly one extremum.
C10_Witness ==
    /\ pc = "ext"
    /\ NumPeaks = 1
    /\ Raised(extIDX)

(***************************************************************************)
(* Properties of the window loop of find_signal_threshold.                 *)
(***************************************************************************)
\* The mean of the window taken k iterations before the one that has just
\* ended in st (k = 0: the window of that iteration).
WindowMeanBack(v, st, k) ==
    FMean(Slice(v, st.strt - incr * (k + 1), st.endd - incr * (k + 1)))

\* A step of the window loop whose window qualified as the second or a
\* later one of a streak.
StreakStep ==
    /\ pc = "loop"
    /\ loop.flag1
    /\ loop'.iter = loop.iter + 1
    /\ loop'.upcnt > 1
    /\ FGT(loop'.mean, noiseMin)

\* C11 as stated: at the end of every iteration whose window is the second
\* or a later qualifying window in a row, the working threshold is the
\* window mean of the previous iteration.
C11_RestoresPreviousMean ==
    [][StreakStep => FEQ(loop'.thresh, loop.mean)]_vars

\* C11 amended: at the end of such an iteration the working threshold is
\* the working threshold the previous iteration ended with, which is the
\* mean of the first window of the streak: the previous window's mean on
\* the second window of the streak, the mean of the window before the
\* previous one on the third.
C11_RestoresStreakStart ==
    [][StreakStep =>
          /\ FEQ(loop'.thresh, loop.thresh)
          /\ FEQ(loop'.thresh, WindowMeanBack(vctr, loop', loop'.upcnt - 1))
          /\ loop'.upcnt = 2 => FEQ(loop'.thresh, loop.mean)
          /\ loop'.upcnt \in {2, 3}]_vars

\* The third window of a streak has ended: the three window means differ
\* from each other and the working threshold is the first of them.
C11_Witness ==
    /\ pc = "loop"
    /\ loop.upcnt = 3
    /\ FGT(loop.mean, noiseMin)
    /\ ~FEQ(WindowMeanBack(vctr, loop, 1), WindowMeanBack(vctr, loop, 2))
    /\ ~FEQ(loop.mean, WindowMeanBack(vctr, loop, 1))
    /\ FEQ(loop.thresh, WindowMeanBack(vctr, loop, 2))
    /\ FEQ(loop.mean, WindowMeanBack(vctr, loop, 0))

(***************************************************************************)
(* Termination of the two loops.                                           *)
(***************************************************************************)
LoopEnded == pc \in {"returned", "raised", "segdone"}

\* The last three windows all had a mean above 1e-6.
ThreeQualified(v, st) ==
    /\ st.iter >= 3
    /\ \A k \in 0..2 : FGT(WindowMeanBack(v, st, k), noiseMin)

\* An iteration of the window loop: the start advances by 20, and the loop
\* ends with it exactly when the next window's end lies beyond the series
\* or three windows in a row have qualified.
WindowProgress ==
    (pc = "loop" /\ loop.flag1 /\ loop'.iter = loop.iter + 1) =>
        /\ loop'.strt = loop.strt + 20
        /\ loop'.endd = loop.endd + 20
        /\ ~loop'.flag1 <=>
             (loop'.endd > Len(vctr) \/ ThreeQualified(vctr, loop'))

\* An iteration of the segment loop: the start advances past the end of
\* the segment just recorded, and the loop ends with it exactly when the
\* next segment's end lies beyond param or the mean just recorded exceeds
\* ref_max.
SegmentProgress ==
    (pc = "segloop" /\ loop.seg.flag /\ loop'.seg.cnt = loop.seg.cnt + 1) =>
        /\ loop'.seg.strt > loop.seg.strt
        /\ loop'.seg.strt > loop.seg.endd
        /\ ~loop'.seg.flag <=>
             \/ loop'.seg.endd > Len(loop.param)
             \/ FGT(FMean(Slice(loop.param, loop.seg.strt, loop.seg.endd)),
                    loop.refmax)

\* C12: both loops end on every input (a running loop keeps iterating),
\* each iteration advancing the start, and they end on the conditions
\* stated.
C12_LoopsTerminate ==
    /\ <>LoopEnded
    /\ [][WindowProgress]_vars
    /\ [][SegmentProgress]_vars

\* The segment loop has ended after three or more segments on a segment
\* mean above ref_max, with room for a further segment.
C12_Witness ==
    /\ pc = "segdone"
    /\ loop.seg.cnt >= 3
    /\ loop.seg.endd <= Len(loop.param)
    /\ FGT(loop.seg.tstmean[loop.seg.cnt][2], loop.refmax)

(***************************************************************************)
(* Properties of the branches of get_extension_arrival.                    *)
(***************************************************************************)
\* The locals of the call on sgnl when the segment loop has ended (271).
AtBranch == ExtSegments(ExtBefore(sgnl))

\* The call reached line 276 and took Branch A, resp. Branch B.
InBranchA == pc = "ext" /\ AtBranch.stage = "run" /\ IsBranchA(AtBranch)

InBranchB == pc = "ext" /\ AtBranch.stage = "run" /\ ~IsBranchA(AtBranch)

\* The recorded segments (0-based numbers) of the locals c whose mean is
\* below ref_noise.
QuietSet(c) ==
    {k \in 0..(Len(c.tstmean) - 1) : FLT(c.tstmean[k + 1][2], c.refnoise)}

LastOf(S) == CHOOSE k \in S : \A l \in S : l <= k

\* C13: in Branch A the segment used for discarding is the last recorded
\* segment with a mean below ref_noise, the 2nd recorded segment (number 1)
\* when there is none, and no exception is raised in choosing it.
C13_BranchASegment ==
    InBranchA =>
        LET c == AtBranch
            a == BranchACut(c)
        IN  /\ a.stage = "run"
            /\ a.seg = IF QuietSet(c) = {} THEN 1 ELSE LastOf(QuietSet(c))

\* C14: the recorded segments tile param from entry 0 on: the first starts
\* at 0, each next one starts where the one before it ended, each has
\* floor(nnlocs/2) entries of param and is recorded with their mean, and
\* after the last one either a recorded mean exceeded ref_max or no further
\* segment fits.
C14_ConsecutiveSegments ==
    (pc = "ext" /\ AtBranch.stage = "run") =>
        LET c == AtBranch
            t == c.tstmean
            h == c.nnlocs \div 2
        IN  /\ Len(t) >= 1
            /\ t[1][1] = 0
            /\ \A k \in 1..(Len(t) - 1) : t[k + 1][1] = t[k][1] + h
            /\ \A k \in 1..Len(t) :
                 /\ t[k][1] + h <= Len(normParam)
                 /\ t[k][2] = FMean(Slice(normParam, t[k][1], t[k][1] + h))
            /\ \/ FGT(t[Len(t)][2], c.refmax)
               \/ t[Len(t)][1] + 2 * h > Len(normParam)

\* The first entry of the window of Branch B: the start of the last segment
\* with a mean below ref_noise.
WindowFirst(c) == c.tstmean[LastOf(QuietSet(c)) + 1][1]

\* The entries of param from there on that exceed ref_max; the first of
\* them is the last entry of the window.
AboveMax(c) ==
    {j \in WindowFirst(c)..(Len(c.param) - 1) : FGT(At(c.param, j), c.refmax)}

\* The entries of the window at or below ref_noise.
WindowQuiet(c) ==
    {j \in WindowFirst(c)..FirstOf(AboveMax(c)) : FLE(At(c.param, j), c.refnoise)}

\* The second-to-last location of the window first..last, the last if it
\* has only one.
WindowFallback(first, last) ==
    IF last > first THEN At(peaks.locs, last - 1) ELSE At(peaks.locs, last)

====
